---- MODULE Spec2Model ----
(***************************************************************************)
(* The account-linking flow of the Settings page: the TwitterAuthModal     *)
(* component (frontend/src/components/TwitterAuthModal.js), the Settings   *)
(* component that hosts it and keeps the linked-account list               *)
(* (frontend/src/pages/Login.js, second Settings component) and the        *)
(* authService wrappers they call (unnamed/part_003).                      *)
(*                                                                         *)
(* One action is one run of the event loop: a user event with the handler  *)
(* code up to its first await, or the continuation of a handler after the  *)
(* awaited call settles.  Calls in flight are kept in the variables        *)
(* startCalls, authCalls, successFetches and removeCalls; they settle in   *)
(* any order, so the last three are bags.                                  *)
(***************************************************************************)
EXTENDS Integers, Sequences, FiniteSets, Bags, TLC

\* ------------------------------------------------------------------ bounds
\* startTwitterAuth calls in flight at one time.  A request call is only sent
\* while step is initial, and step leaves initial for good when the first one
\* settles, so this also bounds the request calls of a behaviour, the
\* authenticate calls in flight and the successful links
MaxStarts == 2
\* DELETE calls in flight at one time
MaxPendingRemoves == 1
\* status calls in flight plus status calls that ended the poll
MaxPolls == 1

\* ------------------------------------------------------------- value sets
\* JavaScript null / undefined
Null == "<null>"

\* usernames of accounts that can be linked
Users == {"alice"}

\* the account fetchData falls back to
MockUsername == "twitteruser1"

\* request_id tokens handed out by the service, one per request call
Tokens == <<"req1", "req2", "req3", "req4">>

\* the detail field of a failed response: absent, empty, or a text
Details == {Null, "", "service detail"}

\* the error field of a {success: false} body: absent, empty, or a text
ErrorTexts == {Null, "", "bad credentials"}

Steps == {"initial", "credentials", "processing", "success", "error"}

MsgStartFailed == "Failed to start Twitter authentication"
MsgAuthFailed == "Authentication failed"
MsgCompleteFailed == "Failed to complete Twitter authentication"
MsgAuthCatch == "Failed to authenticate with Twitter"

\* a || b of JavaScript on strings: null, undefined and "" are falsy
OrElse(a, b) == IF a \in {Null, ""} THEN b ELSE a

VARIABLES
  loading,              \* Settings: the mount-time fetch has not finished
  showTwitterModal,     \* Settings: the isOpen prop of the modal
  twitterAccounts,      \* Settings: the cached list of linked accounts
  step,                 \* modal: initial, credentials, processing, success, error
  requestId,            \* modal: request_id of the link request, or Null
  error,                \* modal: the message shown in step error, or Null
  statusCheckInterval,  \* modal: handle of the status poll timer, or Null
  startCalls,           \* request calls in flight (their numbers)
  authCalls,            \* authenticate calls in flight
  successFetches,       \* handleTwitterSuccess runs awaiting getTwitterAccounts
  removeCalls,          \* DELETE calls in flight (their usernames)
  closeTimers,          \* pending setTimeout(onClose, 2000) timers
  startsIssued,         \* number of request calls sent so far
  abandoned,            \* log: the modal was closed on a pending start, no start since
  staleTimers,          \* log: pending close timers armed before the modal last closed
  statusCalls,          \* status calls in flight
  intervalsCleared,     \* log: number of clearInterval calls made
  token,                \* localStorage 'token', or Null
  currentUser,          \* AuthProvider: the user's data, or Null
  isAuthenticated,      \* AuthProvider
  authLoading,          \* AuthProvider: loading
  authError,            \* AuthProvider: error
  sessionStarted,       \* AuthProvider: the mount effect has run
  profilePending,       \* the start-up getUserProfile call is in flight
  loginCalls,           \* login and register calls in flight; live: its form is mounted
  logoutCalls,          \* number of logout calls in flight
  location,             \* the path the router is at
  thrown,               \* per authService wrapper, the message of the last Error thrown
  threadPosts,          \* ThreadComposer: the posts of the thread
  isSubmitting,         \* ThreadComposer: the postThread call is in flight
  isGenerating,         \* ThreadComposer: the generateThread call is in flight
  threadError,          \* ThreadComposer: error
  successMessage        \* ThreadComposer

sessionVars == <<token, currentUser, isAuthenticated, authLoading, authError,
                 sessionStarted, profilePending, loginCalls, logoutCalls, location>>
composerVars == <<threadPosts, isSubmitting, isGenerating, threadError,
                  successMessage>>
appVars == <<sessionVars, thrown, composerVars>>

vars == <<loading, showTwitterModal, twitterAccounts, step, requestId, error,
          statusCheckInterval, startCalls, authCalls, successFetches, removeCalls,
          closeTimers, startsIssued, abandoned, staleTimers, statusCalls,
          intervalsCleared, appVars>>

modalVars == <<step, requestId, error, statusCheckInterval>>
callVars == <<startCalls, authCalls, successFetches, removeCalls, closeTimers>>
logVars == <<startsIssued, abandoned, staleTimers>>
pollVars == <<statusCalls, intervalsCleared>>

\* ------------------------------------------------------------ account lists
Account(u, d) == [username |-> u, is_default |-> d]

Usernames(accts) == {accts[i].username : i \in 1..Len(accts)}

Defaults(accts) == {i \in 1..Len(accts) : accts[i].is_default}

\* the calls in flight with one more call c, and with one call c settled
Sent(calls, c) == calls (+) SetToBag({c})
Settled(calls, c) == calls (-) SetToBag({c})

\* the lists GET /user/twitter-accounts can answer with: the service keeps one
\* entry per username and at most one default
ServerLists ==
  {l \in UNION {[1..n -> {Account(u, d) : u \in Users, d \in BOOLEAN}] :
                  n \in 0..Cardinality(Users)} :
     /\ \A i, j \in 1..Len(l) : l[i].username = l[j].username => i = j
     /\ Cardinality(Defaults(l)) <= 1}

MockAccounts == <<Account(MockUsername, TRUE)>>

\* every username an account of the list can have
AllUsernames == Users \cup {MockUsername}

\* the five authService wrappers of the linking flow
Wrappers == {"request", "status", "authenticate", "list", "remove"}

\* no wrapper has thrown
NothingThrown == thrown = [w \in Wrappers |-> Null]

\* AuthProvider with a user logged in, as when a protected page is shown
LoggedIn ==
  /\ token = "stored"
  /\ currentUser = "user"
  /\ isAuthenticated = TRUE
  /\ authLoading = FALSE
  /\ authError = Null
  /\ sessionStarted = TRUE
  /\ profilePending = FALSE
  /\ loginCalls = EmptyBag
  /\ logoutCalls = 0
  /\ location = "/settings"

\* a post of the thread; filled stands for content.trim() being non-empty
Post(id, filled) == [id |-> id, filled |-> filled]

\* ThreadComposer after construction
ComposerInit ==
  /\ threadPosts = << Post(1, FALSE) >>
  /\ isSubmitting = FALSE
  /\ isGenerating = FALSE
  /\ threadError = Null
  /\ successMessage = Null

\* Settings and TwitterAuthModal after construction
SettingsInit ==
  /\ loading = TRUE
  /\ showTwitterModal = FALSE
  /\ twitterAccounts = <<>>
  /\ step = "initial"
  /\ requestId = Null
  /\ error = Null
  /\ statusCheckInterval = Null
  /\ startCalls = {}
  /\ authCalls = EmptyBag
  /\ successFetches = EmptyBag
  /\ removeCalls = EmptyBag
  /\ closeTimers = 0
  /\ startsIssued = 0
  /\ abandoned = FALSE
  /\ staleTimers = 0
  /\ statusCalls = EmptyBag
  /\ intervalsCleared = 0

\* the Settings page just mounted, in a logged-in session
Init == SettingsInit /\ LoggedIn /\ NothingThrown /\ ComposerInit

\* ------------------------------------------------------------ call outcomes
\* a settled call of an authService wrapper: resolved with the response body, or
\* failed with the detail field of the error response (Null when there is none)
Resolved(data) == [ok |-> TRUE, data |-> data]
Failed(detail) == [ok |-> FALSE, detail |-> detail]

\* the message of the Error an authService wrapper throws
WrapperMessage_Generic(detail, fallback) == fallback

WrapperMessage(detail, fallback) == OrElse(detail, fallback)

\* the handlers that fetch the list never read the message of its failure
ListOutcomes == {Resolved(l) : l \in ServerLists} \cup {Failed(Null)}

\* bodies of POST /user/auth/twitter/authenticate/{id}
AuthBodies ==
  {[success |-> TRUE, username |-> u, error |-> Null] : u \in Users \cup {Null}}
    \cup {[success |-> FALSE, username |-> Null, error |-> e] : e \in ErrorTexts}

AuthOutcomes == {Resolved(b) : b \in AuthBodies} \cup {Failed(d) : d \in Details}

\* bodies of GET /user/auth/twitter/status/{id}
StatusBodies ==
  {[status |-> "completed", username |-> u, error |-> Null] : u \in Users \cup {Null}}
    \cup {[status |-> "failed", username |-> Null, error |-> e] :
             e \in {Null, "bad credentials"}}
    \cup {[status |-> "pending", username |-> Null, error |-> Null]}

\* checkStatus only logs the message of a failed status call
StatusOutcomes == {Resolved(b) : b \in StatusBodies} \cup {Failed(Null)}

\* ------------------------------------------------------- Settings.fetchData
\* the list Settings shows after the mount-time fetch: the fetched list, or the
\* mock account when the fetch fails or answers empty
FetchedOrMock(out) ==
  IF out.ok /\ Len(out.data) > 0 THEN out.data ELSE MockAccounts

FetchDataDone(out) ==
  /\ loading
  /\ twitterAccounts' = FetchedOrMock(out)
  /\ loading' = FALSE
  /\ UNCHANGED <<showTwitterModal, modalVars, callVars, logVars, pollVars, appVars>>

\* ------------------------------------------------- TwitterAuthModal: start
\* the effect calling startAuth() on every opening, whatever the step
StartsOnOpen_Always(s) == s \in Steps

\* useEffect([isOpen]) after isOpen became true: startAuth() when step is initial
StartsOnOpen(s) == s = "initial"

\* Settings: the "Link X (Twitter) Account" button, then the modal's effect
OpenModal ==
  /\ ~loading
  /\ ~showTwitterModal
  /\ showTwitterModal' = TRUE
  /\ IF StartsOnOpen(step)
       THEN /\ startsIssued < MaxStarts
            /\ error' = Null
            /\ startsIssued' = startsIssued + 1
            /\ startCalls' = startCalls \cup {startsIssued + 1}
            /\ abandoned' = FALSE
       ELSE UNCHANGED <<error, startsIssued, startCalls, abandoned>>
  /\ UNCHANGED <<loading, twitterAccounts, step, requestId, statusCheckInterval,
                 authCalls, successFetches, removeCalls, closeTimers, staleTimers,
                 pollVars, appVars>>

\* the effect testing only the step, so that closing in initial also runs
\* startAuth()
CloseModal_Restarts ==
  /\ showTwitterModal
  /\ showTwitterModal' = FALSE
  /\ IF step = "initial" /\ startsIssued < MaxStarts
       THEN /\ startsIssued' = startsIssued + 1
            /\ startCalls' = startCalls \cup {startsIssued + 1}
       ELSE UNCHANGED <<startsIssued, startCalls>>
  /\ abandoned' = (abandoned \/ (step = "initial" /\ startCalls # {}))
  /\ staleTimers' = closeTimers
  /\ UNCHANGED <<loading, twitterAccounts, modalVars, authCalls, successFetches,
                 removeCalls, closeTimers, pollVars, appVars>>

\* the close button of the modal header, or Cancel in the credentials form:
\* onClose() is setShowTwitterModal(false).  The effect cleanup would clear the
\* poll timer, but no code path ever arms one: statusCheckInterval stays Null
CloseModal ==
  /\ showTwitterModal
  /\ showTwitterModal' = FALSE
  /\ abandoned' = (abandoned \/ (step = "initial" /\ startCalls # {}))
  /\ staleTimers' = closeTimers
  /\ UNCHANGED <<loading, twitterAccounts, modalVars, callVars, startsIssued,
                 pollVars, appVars>>

\* startAuth showing its own text whatever the service reported
StartErrorMessage_Generic(detail) == MsgStartFailed

\* the message startAuth shows when the request call failed with this detail
StartErrorMessage(detail) ==
  OrElse(WrapperMessage(detail, MsgStartFailed), MsgStartFailed)

\* startAuth after the request call resolved: request_id is stored
StartResolved(n) ==
  /\ n \in startCalls
  /\ startCalls' = startCalls \ {n}
  /\ requestId' = Tokens[n]
  /\ step' = "credentials"
  /\ UNCHANGED <<loading, showTwitterModal, twitterAccounts, error,
                 statusCheckInterval, authCalls, successFetches, removeCalls,
                 closeTimers, logVars, pollVars, appVars>>

\* startAuth after the request call failed
StartFailed(n, detail) ==
  /\ n \in startCalls
  /\ startCalls' = startCalls \ {n}
  /\ error' = StartErrorMessage(detail)
  /\ step' = "error"
  /\ UNCHANGED <<loading, showTwitterModal, twitterAccounts, requestId,
                 statusCheckInterval, authCalls, successFetches, removeCalls,
                 closeTimers, logVars, pollVars, appVars>>

\* the "Try Again" button of the error step
Retry ==
  /\ showTwitterModal
  /\ step = "error"
  /\ step' = "credentials"
  /\ UNCHANGED <<loading, showTwitterModal, twitterAccounts, requestId, error,
                 statusCheckInterval, callVars, logVars, pollVars, appVars>>

\* ------------------------------------------------ TwitterAuthModal: submit
\* the credentials form is rendered, so its submit handler can run
FormRendered(open, s) == open /\ s = "credentials"

\* onSubmit up to its await: the authenticate call leaves with the requestId of
\* the current render and the onSuccess closure of the current Settings render
Submit ==
  /\ FormRendered(showTwitterModal, step)
  /\ error' = Null
  /\ step' = "processing"
  /\ authCalls' = Sent(authCalls, [requestId |-> requestId,
                                   snapshotEmpty |-> (Len(twitterAccounts) = 0)])
  /\ UNCHANGED <<loading, showTwitterModal, twitterAccounts, requestId,
                 statusCheckInterval, startCalls, successFetches, removeCalls,
                 closeTimers, logVars, pollVars, appVars>>

\* onSubmit showing its own text whatever the service reported
AuthErrorMessage_Generic(out) == MsgAuthFailed

\* onSubmit showing what the service reported with no text of its own
AuthErrorMessage_Raw(out) == IF out.ok THEN out.data.error ELSE out.detail

\* the message onSubmit shows for a settled authenticate call that did not succeed
AuthErrorMessage(out) ==
  IF out.ok
    THEN OrElse(out.data.error, MsgAuthFailed)
    ELSE OrElse(WrapperMessage(out.detail, MsgCompleteFailed), MsgAuthCatch)

\* the step onSubmit sets once the authenticate call has settled
StepAfterAuth(out) == IF out.ok /\ out.data.success THEN "success" ELSE "error"

\* onSuccess called from both the response branch and a status callback
EmitSuccess_Twice(runs, username, snapshotEmpty) ==
  runs (+) SetToBag({[username |-> username, snapshotEmpty |-> snapshotEmpty]})
       (+) SetToBag({[username |-> username, snapshotEmpty |-> snapshotEmpty]})

\* onSuccess(response): one more run of Settings.handleTwitterSuccess, which
\* waits for getTwitterAccounts holding the response's username and the
\* is-the-list-empty test of the render that created it
EmitSuccess(runs, username, snapshotEmpty) ==
  Sent(runs, [username |-> username, snapshotEmpty |-> snapshotEmpty])

\* onSubmit after the authenticate call settled.  On success the modal calls
\* onSuccess(response), which is Settings.handleTwitterSuccess up to its await of
\* getTwitterAccounts, and arms the auto-close timer
AuthSettled(call, out) ==
  /\ BagIn(call, authCalls)
  /\ authCalls' = Settled(authCalls, call)
  /\ step' = StepAfterAuth(out)
  /\ IF out.ok /\ out.data.success
       THEN /\ successFetches' = EmitSuccess(successFetches, out.data.username,
                                                call.snapshotEmpty)
            /\ closeTimers' = closeTimers + 1
            /\ staleTimers' = IF showTwitterModal THEN staleTimers
                                                  ELSE staleTimers + 1
            /\ UNCHANGED error
       ELSE /\ error' = AuthErrorMessage(out)
            /\ UNCHANGED <<successFetches, closeTimers, staleTimers>>
  /\ UNCHANGED <<loading, showTwitterModal, twitterAccounts, requestId,
                 statusCheckInterval, startCalls, removeCalls, startsIssued,
                 abandoned, pollVars, appVars>>

\* setTimeout(() => onClose(), 2000) fires
AutoClose ==
  /\ closeTimers > 0
  /\ closeTimers' = closeTimers - 1
  /\ showTwitterModal' = FALSE
  /\ staleTimers' = closeTimers - 1
  /\ UNCHANGED <<loading, twitterAccounts, modalVars, startCalls, authCalls,
                 successFetches, removeCalls, startsIssued, abandoned, pollVars, appVars>>

\* ------------------------------------------ TwitterAuthModal: checkStatus
\* checkStatus up to its await: the status call leaves for the requestId of the
\* current render; its continuation only reads the onSuccess closure of the
\* current Settings render.  The component has no call of checkStatus; it runs
\* when a timer or a caller of the mounted modal invokes it
CheckStatus ==
  /\ ~loading
  /\ BagCardinality(statusCalls) + intervalsCleared < MaxPolls
  /\ statusCalls' = Sent(statusCalls, [snapshotEmpty |-> (Len(twitterAccounts) = 0)])
  /\ UNCHANGED <<loading, showTwitterModal, twitterAccounts, modalVars, callVars,
                 logVars, intervalsCleared, appVars>>

\* checkStatus treating every status but completed as failed
StatusVerdict_PendingFails(out) ==
  IF out.ok
    THEN IF out.data.status = "completed" THEN "completed" ELSE "failed"
    ELSE "none"

\* the branch checkStatus takes for a settled status call: completed, failed, or
\* none for any other status and for a call that threw
StatusVerdict(out) ==
  IF out.ok /\ out.data.status \in {"completed", "failed"}
    THEN out.data.status
    ELSE "none"

\* checkStatus after the status call settled.  clearInterval(statusCheckInterval)
\* is called in the completed and failed branches; the success branch calls
\* onSuccess(response) and arms no close timer
StatusSettled(call, out) ==
  /\ BagIn(call, statusCalls)
  /\ statusCalls' = Settled(statusCalls, call)
  /\ CASE StatusVerdict(out) = "completed" ->
            /\ intervalsCleared' = intervalsCleared + 1
            /\ step' = "success"
            /\ successFetches' = EmitSuccess(successFetches, out.data.username,
                                                call.snapshotEmpty)
            /\ UNCHANGED error
       [] StatusVerdict(out) = "failed" ->
            /\ intervalsCleared' = intervalsCleared + 1
            /\ error' = OrElse(out.data.error, MsgAuthFailed)
            /\ step' = "error"
            /\ UNCHANGED successFetches
       [] OTHER ->
            UNCHANGED <<intervalsCleared, step, error, successFetches>>
  /\ UNCHANGED <<loading, showTwitterModal, twitterAccounts, requestId,
                 statusCheckInterval, startCalls, authCalls, removeCalls,
                 closeTimers, logVars, appVars>>

\* -------------------------------------------- Settings.handleTwitterSuccess
\* the built entry never marked as the default
NewAccount_NeverDefault(username, snapshotEmpty) == [username |-> username, is_default |-> FALSE]

\* the entry handleTwitterSuccess builds from the authenticate response; it is
\* the default when the list of the render that created the handler was empty
NewAccount(username, snapshotEmpty) == Account(username, snapshotEmpty)

\* the built entry appended whatever the refresh answered
AfterLinkSuccess_AlwaysAppend(accts, out, username, snapshotEmpty) ==
  IF username # Null
    THEN Append(accts, [username |-> username, is_default |-> snapshotEmpty])
    ELSE accts

\* the list after handleTwitterSuccess finished: the fetched list when the fetch
\* answered a non-empty list, else the current list with the built entry
\* appended when the response has a username
AfterLinkSuccess(accts, out, username, snapshotEmpty) ==
  IF out.ok /\ Len(out.data) > 0
    THEN out.data
    ELSE IF username # Null
           THEN Append(accts, NewAccount(username, snapshotEmpty))
           ELSE accts

\* handleTwitterSuccess after getTwitterAccounts settled
SuccessFetchSettled(run, out) ==
  /\ BagIn(run, successFetches)
  /\ successFetches' = Settled(successFetches, run)
  /\ twitterAccounts' = AfterLinkSuccess(twitterAccounts, out, run.username,
                                         run.snapshotEmpty)
  /\ UNCHANGED <<loading, showTwitterModal, modalVars, startCalls, authCalls,
                 removeCalls, closeTimers, logVars, pollVars, appVars>>

\* ------------------------------------- Settings.handleRemoveTwitterAccount
\* the Remove button of a listed account, confirmed in window.confirm: the
\* DELETE call leaves and the list is not touched yet
RemoveClick(u) ==
  /\ ~loading
  /\ u \in Usernames(twitterAccounts)
  /\ BagCardinality(removeCalls) < MaxPendingRemoves
  /\ removeCalls' = Sent(removeCalls, u)
  /\ UNCHANGED <<loading, showTwitterModal, twitterAccounts, modalVars, startCalls,
                 authCalls, successFetches, closeTimers, logVars, pollVars, appVars>>

\* prev.filter(account => account.username !== username)
WithoutUser(accts, u) == SelectSeq(accts, LAMBDA a : a.username # u)

\* the entry dropped from the list whether or not the DELETE call succeeded
AfterRemove_Optimistic(accts, u, ok) == SelectSeq(accts, LAMBDA a : a.username # u)

\* the list after the DELETE call for u settled
AfterRemove(accts, u, ok) == IF ok THEN WithoutUser(accts, u) ELSE accts

RemoveSettled(u, ok) ==
  /\ BagIn(u, removeCalls)
  /\ removeCalls' = Settled(removeCalls, u)
  /\ twitterAccounts' = AfterRemove(twitterAccounts, u, ok)
  /\ UNCHANGED <<loading, showTwitterModal, modalVars, startCalls, authCalls,
                 successFetches, closeTimers, logVars, pollVars, appVars>>

\* --------------------------------------- Settings.handleSetDefaultAccount
\* the target marked as default without clearing the flag of the others
SetDefaultMap_KeepOthers(accts, u) ==
  [i \in 1..Len(accts) |->
     [username |-> accts[i].username,
      is_default |-> (accts[i].is_default \/ accts[i].username = u)]]

\* prev.map(account => ({...account, is_default: account.username === username}))
SetDefaultMap(accts, u) ==
  [i \in 1..Len(accts) |-> Account(accts[i].username, accts[i].username = u)]

handleSetDefaultAccount(u) ==
  /\ twitterAccounts' = SetDefaultMap(twitterAccounts, u)
  /\ UNCHANGED <<loading, showTwitterModal, modalVars, callVars, logVars, pollVars, appVars>>

\* the "Set as Default" button, rendered for the listed accounts that are not
\* the default
SetDefaultClick(u) ==
  /\ ~loading
  /\ \E i \in 1..Len(twitterAccounts) :
       twitterAccounts[i].username = u /\ ~twitterAccounts[i].is_default
  /\ handleSetDefaultAccount(u)

\* handleSetDefaultAccount called with any username, as the setDefault
\* operation of the account list
SetDefaultCall(u) ==
  /\ ~loading
  /\ handleSetDefaultAccount(u)

\* ---------------------------------------------------------- specifications
Next ==
  \/ \E out \in ListOutcomes : FetchDataDone(out)
  \/ OpenModal
  \/ CloseModal
  \/ \E n \in startCalls : StartResolved(n)
  \/ \E n \in startCalls, d \in Details : StartFailed(n, d)
  \/ Retry
  \/ Submit
  \/ \E call \in BagToSet(authCalls), out \in AuthOutcomes : AuthSettled(call, out)
  \/ AutoClose
  \/ \E run \in BagToSet(successFetches), out \in ListOutcomes :
       SuccessFetchSettled(run, out)
  \/ \E u \in AllUsernames : RemoveClick(u)
  \/ \E u \in BagToSet(removeCalls), ok \in BOOLEAN : RemoveSettled(u, ok)
  \/ \E u \in AllUsernames : SetDefaultClick(u)

\* the running page: every handler is reached through the rendered controls
Spec == Init /\ [][Next]_vars

\* the timer armed by setTimeout fires
FairSpec == Spec /\ WF_vars(AutoClose)

\* the account list driven as an interface: setDefault with any username
ApiNext == Next \/ \E u \in AllUsernames : SetDefaultCall(u)

ApiSpec == Init /\ [][ApiNext]_vars

\* the linking flow with checkStatus being run, as the callback of a status
\* poll; the user leaves the buttons of the account list alone
PollNext ==
  \/ \E out \in ListOutcomes : FetchDataDone(out)
  \/ OpenModal
  \/ CloseModal
  \/ \E n \in startCalls : StartResolved(n)
  \/ \E n \in startCalls, d \in Details : StartFailed(n, d)
  \/ Retry
  \/ Submit
  \/ \E call \in BagToSet(authCalls), out \in AuthOutcomes : AuthSettled(call, out)
  \/ AutoClose
  \/ \E run \in BagToSet(successFetches), out \in ListOutcomes :
       SuccessFetchSettled(run, out)
  \/ CheckStatus
  \/ \E call \in BagToSet(statusCalls), out \in StatusOutcomes : StatusSettled(call, out)

PollSpec == Init /\ [][PollNext]_vars

TypeOK ==
  /\ loading \in BOOLEAN
  /\ showTwitterModal \in BOOLEAN
  /\ step \in Steps
  /\ requestId \in {Null} \cup {Tokens[n] : n \in 1..MaxStarts}
  /\ statusCheckInterval = Null
  /\ startCalls \subseteq 1..MaxStarts
  /\ closeTimers \in 0..(MaxStarts + MaxPolls)
  /\ staleTimers \in 0..closeTimers
  /\ ~showTwitterModal => staleTimers = closeTimers
  /\ BagCardinality(authCalls) <= MaxStarts + MaxPolls
  /\ BagCardinality(successFetches) <= MaxStarts + 2 * MaxPolls
  /\ BagCardinality(removeCalls) <= MaxPendingRemoves
  /\ BagCardinality(statusCalls) <= MaxPolls
  /\ intervalsCleared \in 0..MaxPolls

\* ------------------------------------------------------------------ authService
\* everything Settings and TwitterAuthModal hold
settingsVars == <<loading, showTwitterModal, twitterAccounts, modalVars, callVars,
                  logVars, pollVars>>

\* the generic message of each wrapper of the linking flow
WrapperFallback(w) ==
  CASE w = "request"      -> MsgStartFailed
    [] w = "status"       -> "Failed to check Twitter authentication status"
    [] w = "authenticate" -> MsgCompleteFailed
    [] w = "list"         -> "Failed to get Twitter accounts"
    [] w = "remove"       -> "Failed to remove Twitter account"

\* the catch block of a wrapper: the call failed with this detail in the response
WrapperFails(w, detail) ==
  /\ thrown' = [thrown EXCEPT ![w] = WrapperMessage(detail, WrapperFallback(w))]
  /\ UNCHANGED <<settingsVars, sessionVars, composerVars>>

WrapperNext == \E w \in Wrappers, detail \in Details : WrapperFails(w, detail)

WrapperSpec == Init /\ [][WrapperNext]_vars

\* ------------------------------------------------------------------ AuthProvider
MaxSessionCalls == 2

Undefined == "undefined"

\* access_token of a login or register response; the field may be missing
AccessTokens == {"issued", Undefined}

\* localStorage.setItem stores the string form of the value
setItem(value) == IF value = Undefined THEN "undefined" ELSE value

\* the message the provider falls back to when the thrown Error has none
ProviderFallback(kind) ==
  IF kind = "login" THEN "Failed to login" ELSE "Failed to register"

\* the generic message of the login and register wrappers
LoginFallback(kind) ==
  IF kind = "login" THEN "Login failed" ELSE "Registration failed"

\* the routes of App
AuthPaths == {"/login", "/register"}
ProtectedPaths == {"/", "/settings"}
Paths == AuthPaths \cup ProtectedPaths

\* the form each auth route shows, named by the provider function it calls
FormAt(path) == IF path = "/login" THEN "login" ELSE "register"

\* the application starts at some path: nothing has run, a token may be left
\* from an earlier visit
SessionInit ==
  /\ token \in {Null, "stored"}
  /\ currentUser = Null
  /\ isAuthenticated = FALSE
  /\ authLoading = TRUE
  /\ authError = Null
  /\ sessionStarted = FALSE
  /\ profilePending = FALSE
  /\ loginCalls = EmptyBag
  /\ logoutCalls = 0
  /\ location \in Paths
  /\ SettingsInit /\ NothingThrown /\ ComposerInit

\* the mount effect of AuthProvider, up to the profile request
StartUp ==
  /\ ~sessionStarted
  /\ sessionStarted' = TRUE
  /\ IF token # Null
       THEN profilePending' = TRUE /\ UNCHANGED authLoading
       ELSE authLoading' = FALSE /\ UNCHANGED profilePending
  /\ UNCHANGED <<token, currentUser, isAuthenticated, authError, loginCalls,
                 logoutCalls, location, settingsVars, thrown, composerVars>>

AfterProfile_KeepsToken(ok) ==
  IF ok THEN [token |-> token, currentUser |-> "user", isAuthenticated |-> TRUE]
  ELSE [token |-> token, currentUser |-> currentUser,
        isAuthenticated |-> isAuthenticated]

\* the session after the profile request settled
AfterProfile(ok) ==
  IF ok THEN [token |-> token, currentUser |-> "user", isAuthenticated |-> TRUE]
  ELSE [token |-> Null, currentUser |-> currentUser,
        isAuthenticated |-> isAuthenticated]

\* then / catch / finally of the profile request
ProfileSettled(ok) ==
  /\ profilePending
  /\ profilePending' = FALSE
  /\ token' = AfterProfile(ok).token
  /\ currentUser' = AfterProfile(ok).currentUser
  /\ isAuthenticated' = AfterProfile(ok).isAuthenticated
  /\ authLoading' = FALSE
  /\ UNCHANGED <<authError, sessionStarted, loginCalls, logoutCalls, location,
                 settingsVars, thrown, composerVars>>

ProtectedRoute_NoSpinner(isLoading, authenticated) ==
  IF ~authenticated THEN "Navigate /login" ELSE "children"

\* what ProtectedRoute renders
ProtectedRoute(isLoading, authenticated) ==
  IF isLoading THEN "spinner"
  ELSE IF ~authenticated THEN "Navigate /login"
  ELSE "children"

\* what AuthLayout renders around /login and /register
AuthLayout(isLoading, authenticated) ==
  IF isLoading THEN "spinner"
  ELSE IF authenticated THEN "Navigate /"
  ELSE "Outlet"

\* what App renders at the current path
View ==
  IF location \in ProtectedPaths
    THEN ProtectedRoute(authLoading, isAuthenticated)
    ELSE AuthLayout(authLoading, isAuthenticated)

\* the forms unmount: their requests go on, their buttons are gone
Unmounted(calls) ==
  LET kinds == {c.kind : c \in BagToSet(calls)}
      count(k) == CopiesIn([kind |-> k, live |-> TRUE], calls)
                    + CopiesIn([kind |-> k, live |-> FALSE], calls)
  IN  [c \in {[kind |-> k, live |-> FALSE] : k \in kinds} |-> count(c.kind)]

\* a Navigate element takes effect
Redirect ==
  /\ View \in {"Navigate /login", "Navigate /"}
  /\ location' = IF View = "Navigate /login" THEN "/login" ELSE "/"
  /\ UNCHANGED <<token, currentUser, isAuthenticated, authLoading, authError,
                 sessionStarted, profilePending, loginCalls, logoutCalls,
                 settingsVars, thrown, composerVars>>

\* the Link between Login and Register, and the navigation links of MainLayout
FollowLink(path) ==
  /\ path # location
  /\ \/ View = "Outlet" /\ path \in AuthPaths
     \/ View = "children" /\ path \in ProtectedPaths
  /\ location' = path
  /\ loginCalls' = Unmounted(loginCalls)
  /\ UNCHANGED <<token, currentUser, isAuthenticated, authLoading, authError,
                 sessionStarted, profilePending, logoutCalls, settingsVars, thrown,
                 composerVars>>

\* Login.onSubmit and Register.onSubmit up to the request; the button is
\* disabled while the form's own request is in flight
LoginSubmit ==
  /\ View = "Outlet"
  /\ \A c \in BagToSet(loginCalls) : ~c.live
  /\ BagCardinality(loginCalls) < MaxSessionCalls
  /\ authError' = Null
  /\ loginCalls' = Sent(loginCalls, [kind |-> FormAt(location), live |-> TRUE])
  /\ UNCHANGED <<token, currentUser, isAuthenticated, authLoading, sessionStarted,
                 profilePending, logoutCalls, location, settingsVars, thrown,
                 composerVars>>

StoredToken_Dropped(access_token) == token

\* the token login and register persist
StoredToken(access_token) == setItem(access_token)

\* login and register after the request resolved; AuthLayout then drops the Outlet
LoginResolved(call, access_token) ==
  /\ BagIn(call, loginCalls)
  /\ loginCalls' = Unmounted(Settled(loginCalls, call))
  /\ token' = StoredToken(access_token)
  /\ currentUser' = "user"
  /\ isAuthenticated' = TRUE
  /\ UNCHANGED <<authLoading, authError, sessionStarted, profilePending,
                 logoutCalls, location, settingsVars, thrown, composerVars>>

\* login and register after the request failed
LoginFailed(call, detail) ==
  /\ BagIn(call, loginCalls)
  /\ loginCalls' = Settled(loginCalls, call)
  /\ authError' = OrElse(WrapperMessage(detail, LoginFallback(call.kind)),
                         ProviderFallback(call.kind))
  /\ UNCHANGED <<token, currentUser, isAuthenticated, authLoading, sessionStarted,
                 profilePending, logoutCalls, location, settingsVars, thrown,
                 composerVars>>

\* MainLayout.handleLogout up to the request; the layout is a child of ProtectedRoute
LogoutClick ==
  /\ View = "children"
  /\ logoutCalls < MaxSessionCalls
  /\ logoutCalls' = logoutCalls + 1
  /\ UNCHANGED <<token, currentUser, isAuthenticated, authLoading, authError,
                 sessionStarted, profilePending, loginCalls, location, settingsVars,
                 thrown, composerVars>>

AfterLogout_OnlyOnSuccess(ok) ==
  IF ok THEN [token |-> Null, currentUser |-> Null, isAuthenticated |-> FALSE]
  ELSE [token |-> token, currentUser |-> currentUser,
        isAuthenticated |-> isAuthenticated]

\* the session after AuthProvider.logout: the try branch and the catch branch
AfterLogout(ok) == [token |-> Null, currentUser |-> Null, isAuthenticated |-> FALSE]

\* AuthProvider.logout after the request settled, then the rest of handleLogout
LogoutSettled(ok) ==
  /\ logoutCalls > 0
  /\ logoutCalls' = logoutCalls - 1
  /\ token' = AfterLogout(ok).token
  /\ currentUser' = AfterLogout(ok).currentUser
  /\ isAuthenticated' = AfterLogout(ok).isAuthenticated
  /\ location' = "/login"
  /\ loginCalls' = Unmounted(loginCalls)
  /\ UNCHANGED <<authLoading, authError, sessionStarted, profilePending,
                 settingsVars, thrown, composerVars>>

SessionNext ==
  \/ StartUp
  \/ \E ok \in BOOLEAN : ProfileSettled(ok)
  \/ Redirect
  \/ \E path \in Paths : FollowLink(path)
  \/ LoginSubmit
  \/ \E call \in BagToSet(loginCalls), t \in AccessTokens : LoginResolved(call, t)
  \/ \E call \in BagToSet(loginCalls), detail \in Details : LoginFailed(call, detail)
  \/ LogoutClick
  \/ \E ok \in BOOLEAN : LogoutSettled(ok)

SessionSpec == SessionInit /\ [][SessionNext]_vars

\* the mount effect runs; the profile request is answered or fails
FairSessionSpec ==
  SessionSpec /\ WF_vars(StartUp) /\ WF_vars(\E ok \in BOOLEAN : ProfileSettled(ok))

SessionTypeOK ==
  /\ token \in {Null, "stored", "issued", "undefined"}
  /\ currentUser \in {Null, "user"}
  /\ isAuthenticated \in BOOLEAN
  /\ authLoading \in BOOLEAN
  /\ authError \in {Null, "service detail"} \cup {LoginFallback(FormAt(p)) : p \in AuthPaths}
  /\ BagCardinality(loginCalls) <= MaxSessionCalls
  /\ \A c \in BagToSet(loginCalls) : c.kind \in {"login", "register"}
  /\ BagCardinality(loginCalls (-) Unmounted(loginCalls)) <= 1
  /\ logoutCalls \in 0..MaxSessionCalls
  /\ location \in Paths

\* ------------------------------------------------------------------ ThreadComposer
MaxPostId == 3

\* a response without tweets
NoTweets == -1

\* the lengths of response.tweets that are tried
TweetCounts == {NoTweets, 0, 1, 2}

\* aiTopic as generateAIThread may find it
Topics == {"", "  ", "a topic"}

\* String.prototype.trim on the topics above
trim(text) == IF text = "  " THEN "" ELSE text

MsgOnePost == "Thread must have at least one post"
MsgEmptyPosts == "Please enter content for all posts in the thread"
MsgSchedule == "Please select both date and time for scheduled thread"
MsgNoTopic == "Please enter a topic for the AI to generate a thread"
MsgNoThread == "No thread was generated. Please try again with a different topic."
MsgGenerateFailed == "Failed to generate AI thread. Please try again."
MsgPublishFailed == "Failed to publish thread. Please try again."
MsgPublished == "Thread published successfully!"
MsgGenerated == "Thread generated successfully! You can edit it before posting."

PostIds == {threadPosts[i].id : i \in 1..Len(threadPosts)}

\* Math.max over the ids of the posts
MaxId == CHOOSE m \in PostIds : \A id \in PostIds : id <= m

\* findIndex, counted from 1; 0 when no post has the id
findIndex(id) ==
  IF id \in PostIds
    THEN CHOOSE i \in 1..Len(threadPosts) :
           /\ threadPosts[i].id = id
           /\ \A j \in 1..(i - 1) : threadPosts[j].id # id
    ELSE 0

Swapped(i, j) ==
  [threadPosts EXCEPT ![i] = threadPosts[j], ![j] = threadPosts[i]]

handlePostContentChange(id, filled) ==
  /\ id \in PostIds
  /\ threadPosts' = [i \in 1..Len(threadPosts) |->
                       IF threadPosts[i].id = id
                         THEN Post(id, filled)
                         ELSE threadPosts[i]]
  /\ UNCHANGED <<isSubmitting, isGenerating, threadError, successMessage,
                 settingsVars, sessionVars, thrown>>

addPost ==
  /\ MaxId + 1 <= MaxPostId
  /\ threadPosts' = Append(threadPosts, Post(MaxId + 1, FALSE))
  /\ UNCHANGED <<isSubmitting, isGenerating, threadError, successMessage,
                 settingsVars, sessionVars, thrown>>

RemoveRefused_OnlyWhenEmpty == Len(threadPosts) < 1

\* the guard of removePost
RemoveRefused == Len(threadPosts) <= 1

removePost(id) ==
  /\ id \in PostIds
  /\ IF RemoveRefused
       THEN /\ threadError' = MsgOnePost
            /\ UNCHANGED threadPosts
       ELSE /\ threadPosts' = SelectSeq(threadPosts, LAMBDA post : post.id # id)
            /\ UNCHANGED threadError
  /\ UNCHANGED <<isSubmitting, isGenerating, successMessage, settingsVars,
                 sessionVars, thrown>>

\* the button is disabled on the first post
movePostUp(id) ==
  /\ id \in PostIds
  /\ findIndex(id) > 1
  /\ threadPosts' = Swapped(findIndex(id), findIndex(id) - 1)
  /\ UNCHANGED <<isSubmitting, isGenerating, threadError, successMessage,
                 settingsVars, sessionVars, thrown>>

\* the button is disabled on the last post
movePostDown(id) ==
  /\ id \in PostIds
  /\ findIndex(id) < Len(threadPosts)
  /\ threadPosts' = Swapped(findIndex(id), findIndex(id) + 1)
  /\ UNCHANGED <<isSubmitting, isGenerating, threadError, successMessage,
                 settingsVars, sessionVars, thrown>>

\* generateAIThread up to the request. Nothing rendered calls it or sets the
\* topic; it is taken with any topic, one call at a time
generateAIThread(aiTopic) ==
  /\ ~isGenerating
  /\ IF trim(aiTopic) = ""
       THEN /\ threadError' = MsgNoTopic
            /\ UNCHANGED isGenerating
       ELSE /\ isGenerating' = TRUE
            /\ threadError' = Null
  /\ UNCHANGED <<threadPosts, isSubmitting, successMessage, settingsVars,
                 sessionVars, thrown>>

\* the posts made of a response with this many tweets
GeneratedPosts(n) == [index \in 1..n |-> Post(index, TRUE)]

\* generateAIThread after the request resolved
GenerateResolved(tweets) ==
  /\ isGenerating
  /\ isGenerating' = FALSE
  /\ IF tweets # NoTweets /\ tweets > 0
       THEN /\ threadPosts' = GeneratedPosts(tweets)
            /\ successMessage' = MsgGenerated
            /\ UNCHANGED threadError
       ELSE /\ threadError' = MsgNoThread
            /\ UNCHANGED <<threadPosts, successMessage>>
  /\ UNCHANGED <<isSubmitting, settingsVars, sessionVars, thrown>>

\* generateAIThread after the request failed
GenerateFailed ==
  /\ isGenerating
  /\ isGenerating' = FALSE
  /\ threadError' = MsgGenerateFailed
  /\ UNCHANGED <<threadPosts, isSubmitting, successMessage, settingsVars,
                 sessionVars, thrown>>

\* handleSubmit up to the request; the button is disabled while submitting
handleSubmit(scheduleComplete) ==
  /\ ~isSubmitting
  /\ IF \E i \in 1..Len(threadPosts) : ~threadPosts[i].filled
       THEN /\ threadError' = MsgEmptyPosts
            /\ UNCHANGED <<isSubmitting, successMessage>>
       ELSE IF ~scheduleComplete
         THEN /\ threadError' = MsgSchedule
              /\ UNCHANGED <<isSubmitting, successMessage>>
         ELSE /\ isSubmitting' = TRUE
              /\ threadError' = Null
              /\ successMessage' = Null
  /\ UNCHANGED <<threadPosts, isGenerating, settingsVars, sessionVars, thrown>>

\* the result of postThread: success, or an error text that may be missing
SubmitResults ==
  {[success |-> TRUE, error |-> Null]}
    \cup {[success |-> FALSE, error |-> e] : e \in ErrorTexts}

\* handleSubmit after the request resolved
SubmitResolved(result) ==
  /\ isSubmitting
  /\ isSubmitting' = FALSE
  /\ IF result.success
       THEN /\ threadPosts' = << Post(1, FALSE) >>
            /\ successMessage' = MsgPublished
            /\ UNCHANGED threadError
       ELSE /\ threadError' = OrElse(result.error, MsgPublishFailed)
            /\ UNCHANGED <<threadPosts, successMessage>>
  /\ UNCHANGED <<isGenerating, settingsVars, sessionVars, thrown>>

\* handleSubmit after the request failed
SubmitFailed ==
  /\ isSubmitting
  /\ isSubmitting' = FALSE
  /\ threadError' = MsgPublishFailed
  /\ UNCHANGED <<threadPosts, isGenerating, successMessage, settingsVars,
                 sessionVars, thrown>>

ComposerNext ==
  \/ \E id \in 1..MaxPostId, filled \in BOOLEAN : handlePostContentChange(id, filled)
  \/ addPost
  \/ \E id \in 1..MaxPostId : removePost(id)
  \/ \E id \in 1..MaxPostId : movePostUp(id)
  \/ \E id \in 1..MaxPostId : movePostDown(id)
  \/ \E aiTopic \in Topics : generateAIThread(aiTopic)
  \/ \E tweets \in TweetCounts : GenerateResolved(tweets)
  \/ GenerateFailed
  \/ \E scheduleComplete \in BOOLEAN : handleSubmit(scheduleComplete)
  \/ \E result \in SubmitResults : SubmitResolved(result)
  \/ SubmitFailed

\* the composer page of a logged-in session
ComposerSpec == Init /\ [][ComposerNext]_vars

ComposerTypeOK ==
  /\ Len(threadPosts) <= MaxPostId
  /\ \A i \in 1..Len(threadPosts) :
       /\ threadPosts[i].id \in 1..MaxPostId
       /\ threadPosts[i].filled \in BOOLEAN
  /\ \A i, j \in 1..Len(threadPosts) :
       threadPosts[i].id = threadPosts[j].id => i = j
  /\ isSubmitting \in BOOLEAN
  /\ isGenerating \in BOOLEAN

\* ------------------------------------------------------------------ claims
\* a detail or error text that JavaScript treats as present
Present(text) == text # Null /\ text # ""

\* C1: submit while the flow holds no link request (state initial, no requestId
\* obtained yet) sends no authenticate call: every step that puts an
\* authenticate call in flight starts outside initial with a stored requestId.
C1_SubmitNeedsRequest ==
  [][BagCardinality(authCalls') > BagCardinality(authCalls) =>
       (step # "initial" /\ requestId # Null)]_vars

\* C2: once the modal was closed on a pending start(), and until start() is
\* called again, no authenticate or status call is sent and no poll timer is
\* armed, whenever the response of the pending start() arrives.
C2_NoCallAfterCancelledStart ==
  [][abandoned => /\ BagCardinality(authCalls') <= BagCardinality(authCalls)
                  /\ statusCheckInterval' = Null]_vars

\* the link of a username completes on a list that was empty when the
\* credentials were submitted and is empty now
C3_FirstLinkCompletes(run, out) ==
  /\ twitterAccounts = <<>>
  /\ run.snapshotEmpty
  /\ run.username # Null
  /\ SuccessFetchSettled(run, out)

\* a successful authenticate response moves the flow to success
C3_SuccessStep ==
  \A call \in BagToSet(authCalls), out \in AuthOutcomes :
    (out.ok /\ out.data.success /\ AuthSettled(call, out)) => step' = "success"

\* C3 as stated: from an empty list, a successful link of username U leaves the
\* flow in success and the list holding exactly one entry, U, marked default.
C3_FirstLinkIsOnlyEntry ==
  [][/\ C3_SuccessStep
     /\ \A run \in BagToSet(successFetches), out \in ListOutcomes :
          C3_FirstLinkCompletes(run, out) =>
            twitterAccounts' = << [username |-> run.username, is_default |-> TRUE] >>]_vars

\* C3 as amended: from an empty list, a successful link of username U moves the
\* flow to success; the list then is the fetched list when the refresh answers a
\* non-empty list, and otherwise holds exactly one entry, U, marked default.
C3_FirstLinkRefreshedOrDefault ==
  [][/\ C3_SuccessStep
     /\ \A run \in BagToSet(successFetches), out \in ListOutcomes :
          C3_FirstLinkCompletes(run, out) =>
            twitterAccounts' =
              IF out.ok /\ Len(out.data) > 0
                THEN out.data
                ELSE << [username |-> run.username, is_default |-> TRUE] >>]_vars

\* a link submitted on the empty list has succeeded, the flow shows success and
\* the refresh of the still empty list is about to settle
C3_Witness ==
  /\ twitterAccounts = <<>>
  /\ step = "success"
  /\ BagIn([username |-> "alice", snapshotEmpty |-> TRUE], successFetches)

\* C4: an authenticate call that answers success=false with error text E, or
\* that throws, puts the flow in error with E (the service's detail for a
\* throw) or the generic text when none is given, starts no success callback
\* and leaves the account list as it was.
C4_FailedSubmit ==
  [][\A call \in BagToSet(authCalls), out \in AuthOutcomes :
       (~(out.ok /\ out.data.success) /\ AuthSettled(call, out)) =>
         /\ step' = "error"
         /\ error' = IF out.ok
                       THEN IF Present(out.data.error) THEN out.data.error
                                                       ELSE MsgAuthFailed
                       ELSE IF Present(out.detail) THEN out.detail
                                                   ELSE MsgCompleteFailed
         /\ successFetches' = successFetches
         /\ closeTimers' = closeTimers
         /\ twitterAccounts' = twitterAccounts]_vars

\* the service rejected the credentials with its own text: nothing was linked
C4_Witness ==
  /\ step = "error"
  /\ error = "bad credentials"
  /\ successFetches = EmptyBag
  /\ closeTimers = 0

\* C5: at most one entry of the account list is marked default.
C5_AtMostOneDefault == Cardinality(Defaults(twitterAccounts)) <= 1

\* C6: setDefault(u) for a username that is not in the list changes nothing.
C6_SetDefaultAbsentIsNoOp ==
  [][\A u \in AllUsernames :
       (u \notin Usernames(twitterAccounts) /\ SetDefaultCall(u)) =>
         twitterAccounts' = twitterAccounts]_vars

\* C7: remove(u) sends the DELETE call and leaves the list alone; the list
\* loses u when the call resolves, every other entry staying in place; when the
\* call is rejected the list is unchanged and still holds u.
C7_RemoveOnlyAfterDelete ==
  [][\A u \in AllUsernames :
       /\ RemoveClick(u) =>
            /\ CopiesIn(u, removeCalls') = CopiesIn(u, removeCalls) + 1
            /\ twitterAccounts' = twitterAccounts
       /\ RemoveSettled(u, FALSE) => twitterAccounts' = twitterAccounts
       /\ RemoveSettled(u, TRUE) =>
            /\ u \notin Usernames(twitterAccounts')
            /\ twitterAccounts' =
                 SelectSeq(twitterAccounts, LAMBDA a : a.username # u)]_vars

\* the DELETE call for a listed account is in flight and the account is still
\* listed
C7_Witness ==
  /\ BagIn("alice", removeCalls)
  /\ "alice" \in Usernames(twitterAccounts)

\* C8: on a list of two accounts, setDefault on the second leaves exactly one
\* default, the second, whatever the flags were.
C8_SetDefaultSecond ==
  [][\A u \in AllUsernames :
       (/\ Len(twitterAccounts) = 2
        /\ twitterAccounts[1].username # twitterAccounts[2].username
        /\ u = twitterAccounts[2].username
        /\ handleSetDefaultAccount(u)) =>
         Defaults(twitterAccounts') = {2}]_vars

\* the mock account was the default, alice was linked after it, and setDefault
\* made alice the only default
C8_Witness ==
  twitterAccounts = << [username |-> MockUsername, is_default |-> FALSE],
                       [username |-> "alice", is_default |-> TRUE] >>

\* C9: a request call that resolves stores its request_id and moves the flow to
\* credentials; one that fails moves it to error with the service's detail, or
\* the generic text when there is none.
C9_StartOutcome ==
  [][/\ \A n \in startCalls :
          StartResolved(n) => (requestId' = Tokens[n] /\ step' = "credentials")
     /\ \A n \in startCalls, d \in Details :
          StartFailed(n, d) =>
            /\ step' = "error"
            /\ error' = IF Present(d) THEN d ELSE MsgStartFailed
            /\ requestId' = requestId]_vars

\* the request call failed with a detail and the flow shows it
C9_Witness ==
  /\ step = "error"
  /\ error = "service detail"
  /\ requestId = Null
  /\ authCalls = EmptyBag

\* C10: submit sets processing in the step that sends the authenticate call; a
\* success=true response sets success, starts the success callback once and
\* arms the auto-close timer; an armed timer leads to the modal being closed.
C10_SubmitSuccess ==
  /\ [][Submit => /\ step' = "processing"
                  /\ BagCardinality(authCalls') = BagCardinality(authCalls) + 1]_vars
  /\ [][\A call \in BagToSet(authCalls), out \in AuthOutcomes :
          (out.ok /\ out.data.success /\ AuthSettled(call, out)) =>
            /\ step' = "success"
            /\ BagCardinality(successFetches') = BagCardinality(successFetches) + 1
            /\ closeTimers' = closeTimers + 1]_vars
  /\ ((closeTimers > 0) ~> ~showTwitterModal)

\* a link just succeeded: the confirmation is shown and the timer is armed
C10_Witness ==
  /\ showTwitterModal
  /\ step = "success"
  /\ closeTimers = 1
  /\ BagCardinality(successFetches) = 1

\* the steps the flow rests in until the user acts
TerminalSteps == {"success", "error"}

\* C11: a flow in processing leaves it only for success or error, when its
\* authenticate call settles; it never goes from processing to another step.
C11_ProcessingEndsTerminal ==
  [][(step = "processing" /\ step' # "processing") => step' \in TerminalSteps]_vars

\* the edges of the flow's state machine
FlowEdges ==
  { <<"initial", "credentials">>, <<"initial", "error">>,
    <<"credentials", "processing">>, <<"processing", "success">>,
    <<"processing", "error">>, <<"error", "credentials">> }

\* C12: every change of step follows an edge of the state machine, under every
\* interleaving of user actions and call completions.
C12_OnlyFlowEdges ==
  [][step' # step => <<step, step'>> \in FlowEdges]_vars

\* C13: in success or error the step changes only by the user's retry, which
\* leads from error to credentials, and no request or authenticate call is sent
\* by anything but a user action.
C13_TerminalIsStable ==
  [][(step \in TerminalSteps) =>
       /\ BagCardinality(authCalls') <= BagCardinality(authCalls)
       /\ startCalls' \subseteq startCalls
       /\ (step' # step) => (Retry /\ step = "error" /\ step' = "credentials")]_vars

\* C14: while the flow is in credentials or processing no request call is sent:
\* opening the modal in these steps starts nothing.
C14_NoStartWhileUnderway ==
  [][(step \in {"credentials", "processing"}) =>
       (startCalls' \subseteq startCalls /\ startsIssued' = startsIssued)]_vars

\* the modal was closed on a pending start, the response then arrived, and the
\* modal was opened again in credentials: still one request call was ever sent
C14_Witness ==
  /\ showTwitterModal
  /\ step = "credentials"
  /\ abandoned
  /\ startsIssued = 1
  /\ startCalls = {}

C17_FailuresShown ==
  [][/\ \A n \in startCalls, d \in Details :
          StartFailed(n, d) => (step' = "error" /\ Present(error'))
     /\ \A call \in BagToSet(authCalls), out \in AuthOutcomes :
          (~(out.ok /\ out.data.success) /\ AuthSettled(call, out)) =>
            (step' = "error" /\ Present(error'))]_vars

\* the authenticate call failed with no detail: the wrapper's text is shown
C17_Witness ==
  /\ step = "error"
  /\ error = MsgCompleteFailed

\* C18: closing the modal sends nothing to the service: the calls in flight are
\* the same after the close as before it.
C18_CloseSendsNothing ==
  [][CloseModal => /\ startCalls' = startCalls
                   /\ authCalls' = authCalls
                   /\ successFetches' = successFetches
                   /\ removeCalls' = removeCalls
                   /\ statusCalls' = statusCalls]_vars

\* the user closed the modal while the authenticate call was in flight
C18_Witness ==
  /\ ~showTwitterModal
  /\ step = "processing"
  /\ authCalls # EmptyBag
  /\ closeTimers = 0
  /\ startsIssued = 1

\* C19: opening the modal, also after it was closed by the user or by the
\* timer, begins a flow in initial with no requestId and no error and sends a
\* request call.
C19_ReopenStartsAfresh ==
  [][OpenModal => /\ step' = "initial"
                  /\ requestId' = Null
                  /\ error' = Null
                  /\ startsIssued' = startsIssued + 1]_vars

\* C20 as stated: when the refresh after a link answers a non-empty list the
\* account list becomes that list; when it fails or answers empty, an entry is
\* added to the account list.
C20_LinkUpdatesCache ==
  [][\A run \in BagToSet(successFetches), out \in ListOutcomes :
       SuccessFetchSettled(run, out) =>
         IF out.ok /\ Len(out.data) > 0
           THEN twitterAccounts' = out.data
           ELSE /\ Len(twitterAccounts') = Len(twitterAccounts) + 1
                /\ SubSeq(twitterAccounts', 1, Len(twitterAccounts)) = twitterAccounts]_vars

\* C20 as amended: when the refresh answers a non-empty list the account list
\* becomes that list; when it fails or answers empty, an entry with the
\* username of the link result is appended if the result has a username, and
\* the list stays as it is if the result has none.
C20_LinkUpdatesCacheIfNamed ==
  [][\A run \in BagToSet(successFetches), out \in ListOutcomes :
       SuccessFetchSettled(run, out) =>
         IF out.ok /\ Len(out.data) > 0
           THEN twitterAccounts' = out.data
           ELSE IF run.username # Null
                  THEN /\ Len(twitterAccounts') = Len(twitterAccounts) + 1
                       /\ SubSeq(twitterAccounts', 1, Len(twitterAccounts)) = twitterAccounts
                       /\ twitterAccounts'[Len(twitterAccounts')].username = run.username
                  ELSE twitterAccounts' = twitterAccounts]_vars

\* the mount-time fetch gave the mock account, then alice was linked and the
\* refresh failed: her entry was appended, not as the default
C20_Witness ==
  twitterAccounts = << [username |-> MockUsername, is_default |-> TRUE],
                       [username |-> "alice", is_default |-> FALSE] >>

\* C21: no two entries of the account list have the same username, also after
\* linking an account whose username is already listed.
C21_UniqueUsernames ==
  \A i, j \in 1..Len(twitterAccounts) :
    twitterAccounts[i].username = twitterAccounts[j].username => i = j

C23_RequestIdBeforeSubmit ==
  /\ step = "credentials" => requestId # Null
  /\ \A call \in BagToSet(authCalls) : call.requestId # Null

\* C24: at most one request call is in flight at any time.
C24_OneStartInFlight == Cardinality(startCalls) <= 1

\* C25: a close timer armed in a modal session that has ended does not close
\* the modal opened after it: when every pending timer is of an ended session,
\* a timer only fires on a closed modal.
C25_TimerClosesOwnSession ==
  [][(AutoClose /\ staleTimers = closeTimers) => ~showTwitterModal]_vars

\* C26: when logout() returns, whether the remote call succeeded or failed, the
\* token is removed, currentUser is null, isAuthenticated is false, and the
\* caller goes on (to /login): logout() has not thrown
C26_LogoutTearsDown ==
  [][\A ok \in BOOLEAN :
       LogoutSettled(ok) =>
         /\ token' = Null
         /\ currentUser' = Null
         /\ ~isAuthenticated'
         /\ location' = "/login"]_vars

\* C26 witness: of two logouts, one has returned and the session is torn down
C26_Witness ==
  /\ logoutCalls = 1
  /\ token = Null /\ currentUser = Null /\ ~isAuthenticated
  /\ location = "/login"

\* C27: start-up ends with loading false; during start-up the session becomes
\* authenticated only by a successful profile fetch, and a failed one removes
\* the token and leaves the session unauthenticated
C27_StartUpTerminates ==
  /\ <>[](~authLoading)
  /\ [][(authLoading /\ isAuthenticated') => ProfileSettled(TRUE)]_vars
  /\ [][ProfileSettled(FALSE) => (token' = Null /\ ~isAuthenticated')]_vars
  /\ [][(authLoading /\ token = Null) => ~isAuthenticated']_vars

\* C27 witness: start-up has ended with the stored token accepted
C27_Witness ==
  /\ ~authLoading /\ sessionStarted /\ ~profilePending
  /\ isAuthenticated /\ token = "stored"

\* C28: an authenticated session has a token in storage
C28_AuthenticatedHasToken == isAuthenticated => token # Null

\* C28 witness: the session is authenticated by a login that followed a logout,
\* while another logout is still in flight
C28_Witness ==
  /\ isAuthenticated /\ token \in {"issued", "undefined"}
  /\ logoutCalls = 1

\* C29: protected content only when not loading and authenticated; while
\* loading only the spinner; unauthenticated at a protected path goes to
\* /login; authenticated at /login or /register goes to /
C29_RouteGuards ==
  /\ [](/\ View = "children" =>
             (~authLoading /\ isAuthenticated /\ location \in ProtectedPaths)
        /\ authLoading => View = "spinner"
        /\ (~authLoading /\ ~isAuthenticated /\ location \in ProtectedPaths)
             => View = "Navigate /login"
        /\ (~authLoading /\ isAuthenticated /\ location \in AuthPaths)
             => View = "Navigate /")
  /\ [][Redirect =>
          /\ ~authLoading
          /\ location' = IF isAuthenticated THEN "/" ELSE "/login"
          /\ isAuthenticated <=> location \in AuthPaths]_vars

\* C29 witness: an authenticated session is at /register, about to be redirected
C29_Witness ==
  /\ ~authLoading /\ isAuthenticated
  /\ location = "/register"

\* C30: the thread always holds at least one post, and removePost on a
\* one-post thread leaves the thread as it is and reports the error
C30_ThreadNeverEmpty ==
  /\ [](Len(threadPosts) >= 1)
  /\ [][\A id \in 1..MaxPostId :
          (Len(threadPosts) = 1 /\ removePost(id)) =>
            (threadPosts' = threadPosts /\ threadError' = MsgOnePost)]_vars

\* C30 witness: removePost was refused on a thread of one generated post
C30_Witness ==
  /\ threadPosts = << Post(1, TRUE) >>
  /\ threadError = MsgOnePost
  /\ successMessage = MsgGenerated
====
